---- MODULE Spec2Model ----
(***************************************************************************)
(* target-cassandra: the Singer target that reads SCHEMA / RECORD / STATE  *)
(* messages and replicates them into Cassandra (target_cassandra/          *)
(* __init__.py).                                                           *)
(*                                                                         *)
(* Representation of Python / JSON data:                                   *)
(*  - a JSON object (dict) is a function whose DOMAIN is its key set, so   *)
(*    `k in d` is  k \in DOMAIN d  and d[k] on an absent key is KeyError;  *)
(*  - a JSON value inside a record is a one-field record named by its JSON  *)
(*    type, [integer |-> 1], [string |-> "x"]; JsonType gives that type;   *)
(*  - a JSON-Schema "type" keyword is [str |-> t] when it is a string and  *)
(*    [list |-> <<t1, ...>>] when it is a list (type(x) == str / list);    *)
(*  - schema['properties'] is a sequence of [key, def] pairs: a Python     *)
(*    dict iterates in insertion order;                                    *)
(*  - a column class is its name ("Text", "DateTime", ...), "None" where   *)
(*    the mapping table holds None; a raised exception is the name of its  *)
(*    class, [err |-> name] where the normal result is no string.          *)
(***************************************************************************)
EXTENDS Integers, Sequences, FiniteSets, TLC

VARIABLES
    pc,                    \* "running" | "aborted" | "returned" | "exited"
    lines,                 \* the lines read from stdin so far, in order
    state,                 \* persist_lines: state (the pending checkpoint)
    schemas,               \* persist_lines: schemas
    key_properties,        \* persist_lines: key_properties
    validators,            \* persist_lines: validators
    mapped_models,         \* persist_lines: mapped_models
    defined_column_names,  \* persist_lines: defined_column_names
    calls,                 \* storage calls made so far (sync_table, save)
    stdout,                \* lines written to sys.stdout
    error,                 \* the exception that ended the run, "none" if none
    mapperCall,            \* FnSpec: last call of jsonschema_to_cassandra
    schemaCall             \* FnSpec: last call of process_schema

vars == <<pc, lines, state, schemas, key_properties, validators, mapped_models,
          defined_column_names, calls, stdout, error, mapperCall, schemaCall>>

runVars == <<pc, lines, state, schemas, key_properties, validators,
             mapped_models, defined_column_names, calls, stdout, error>>

\* ------------------------------------------------------------------ bounds
MaxLines == 4
MaxTypeList == 3
MaxKeys == 2

\* ------------------------------------------------------- python helpers
\* dict.get(k) with the default None
Get(d, k) == IF k \in DOMAIN d THEN d[k] ELSE "None"

\* d with d[k] = v assigned
Put(d, k, v) == [x \in DOMAIN d \cup {k} |-> IF x = k THEN v ELSE d[x]]

\* mutant: only the first entry of the list is looked at
InList_firstOnly(x, list) == Len(list) > 0 /\ list[1] = x

\* x in <list>
InList(x, list) == \E i \in 1..Len(list) : list[i] = x

\* ---------------------------------------------------------- Type Mapper
JSONSCHEMA_TO_CASSANDRA ==
    [string  |-> "Text",
     array   |-> "None",
     boolean |-> "Boolean",
     integer |-> "Integer",
     number  |-> "Float",
     null    |-> "None",
     object  |-> "None"]

Exceptions == {"AssertionError", "KeyError", "IndexError"}

\* mutant: the list branch recurses on the bare type and loses the other keys
RECURSIVE jsonschema_to_cassandra_dropsFormat(_)
jsonschema_to_cassandra_dropsFormat(jsonschema_definition) ==
    IF "anyOf" \in DOMAIN jsonschema_definition
    THEN IF Len(jsonschema_definition.anyOf) = 0 THEN "IndexError"
         ELSE jsonschema_to_cassandra_dropsFormat(jsonschema_definition.anyOf[1])
    ELSE IF "type" \notin DOMAIN jsonschema_definition THEN "KeyError"
    ELSE LET jsonschema_type == jsonschema_definition.type
             jsonschema_additional_props ==
                 [k \in DOMAIN jsonschema_definition \ {"type"} |-> jsonschema_definition[k]]
         IN IF "str" \in DOMAIN jsonschema_type
            THEN IF jsonschema_type.str \notin DOMAIN JSONSCHEMA_TO_CASSANDRA
                 THEN "AssertionError"
                 ELSE IF jsonschema_type.str = "string"
                         /\ Get(jsonschema_additional_props, "format") = "date-time"
                 THEN "DateTime"
                 ELSE JSONSCHEMA_TO_CASSANDRA[jsonschema_type.str]
            ELSE LET property_type == SelectSeq(jsonschema_type.list, LAMBDA pt : pt # "null")
                 IN IF Len(property_type) # 1 THEN "AssertionError"
                    ELSE jsonschema_to_cassandra_dropsFormat(
                             [type |-> [str |-> property_type[1]]])

\* mutant: a type key beside anyOf wins over the alternatives
RECURSIVE jsonschema_to_cassandra_typeFirst(_)
jsonschema_to_cassandra_typeFirst(jsonschema_definition) ==
    IF "anyOf" \in DOMAIN jsonschema_definition /\ "type" \notin DOMAIN jsonschema_definition
    THEN IF Len(jsonschema_definition.anyOf) = 0 THEN "IndexError"
         ELSE jsonschema_to_cassandra_typeFirst(jsonschema_definition.anyOf[1])
    ELSE IF "type" \notin DOMAIN jsonschema_definition THEN "KeyError"
    ELSE LET jsonschema_type == jsonschema_definition.type
             jsonschema_additional_props ==
                 [k \in DOMAIN jsonschema_definition \ {"type"} |-> jsonschema_definition[k]]
         IN IF "str" \in DOMAIN jsonschema_type
            THEN IF jsonschema_type.str \notin DOMAIN JSONSCHEMA_TO_CASSANDRA
                 THEN "AssertionError"
                 ELSE IF jsonschema_type.str = "string"
                         /\ Get(jsonschema_additional_props, "format") = "date-time"
                 THEN "DateTime"
                 ELSE JSONSCHEMA_TO_CASSANDRA[jsonschema_type.str]
            ELSE LET property_type == SelectSeq(jsonschema_type.list, LAMBDA pt : pt # "null")
                 IN IF Len(property_type) # 1 THEN "AssertionError"
                    ELSE jsonschema_to_cassandra_typeFirst(
                             [type |-> [str |-> property_type[1]]]
                                 @@ jsonschema_additional_props)

RECURSIVE jsonschema_to_cassandra(_)
jsonschema_to_cassandra(jsonschema_definition) ==
    IF "anyOf" \in DOMAIN jsonschema_definition
    THEN \* jsonschema_definition['anyOf'][0]
         IF Len(jsonschema_definition.anyOf) = 0 THEN "IndexError"
         ELSE jsonschema_to_cassandra(jsonschema_definition.anyOf[1])
    ELSE IF "type" \notin DOMAIN jsonschema_definition THEN "KeyError"
    ELSE LET jsonschema_type == jsonschema_definition.type
             jsonschema_additional_props ==
                 [k \in DOMAIN jsonschema_definition \ {"type"} |-> jsonschema_definition[k]]
         IN IF "str" \in DOMAIN jsonschema_type
            THEN IF jsonschema_type.str \notin DOMAIN JSONSCHEMA_TO_CASSANDRA
                 THEN "AssertionError"
                 ELSE IF jsonschema_type.str = "string"
                         /\ Get(jsonschema_additional_props, "format") = "date-time"
                 THEN "DateTime"
                 ELSE JSONSCHEMA_TO_CASSANDRA[jsonschema_type.str]
            ELSE LET property_type == SelectSeq(jsonschema_type.list, LAMBDA pt : pt # "null")
                 IN IF Len(property_type) # 1 THEN "AssertionError"
                    ELSE jsonschema_to_cassandra(
                             [type |-> [str |-> property_type[1]]]
                                 @@ jsonschema_additional_props)

\* ----------------------------------------------------- Schema Translator
\* The loop of process_schema over schema['properties'].items(), from pair i
\* on: either [err |-> exception] or [attrs |-> model_attrs].
\* mutant: a property the Type Mapper rejects is skipped like an unsupported one
RECURSIVE ModelAttrs_skipsRejected(_, _, _, _)
ModelAttrs_skipsRejected(properties, key_props, i, model_attrs) ==
    IF i > Len(properties) THEN [attrs |-> model_attrs]
    ELSE LET property_key == properties[i].key
             model_column_class == jsonschema_to_cassandra(properties[i].def)
         IN IF model_column_class \in Exceptions \cup {"None"}
            THEN ModelAttrs_skipsRejected(properties, key_props, i + 1, model_attrs)
            ELSE ModelAttrs_skipsRejected(properties, key_props, i + 1,
                            Put(model_attrs, property_key,
                                [type |-> model_column_class,
                                 primary_key |-> InList(property_key, key_props)]))

\* mutant: an unsupported property that is a key property is an error
RECURSIVE ModelAttrs_failsOnDroppedKey(_, _, _, _)
ModelAttrs_failsOnDroppedKey(properties, key_props, i, model_attrs) ==
    IF i > Len(properties) THEN [attrs |-> model_attrs]
    ELSE LET property_key == properties[i].key
             model_column_class == jsonschema_to_cassandra(properties[i].def)
         IN IF model_column_class \in Exceptions
            THEN [err |-> model_column_class]
            ELSE IF model_column_class = "None"
            THEN IF InList(property_key, key_props) THEN [err |-> "Exception"]
                 ELSE ModelAttrs_failsOnDroppedKey(properties, key_props, i + 1, model_attrs)
            ELSE ModelAttrs_failsOnDroppedKey(properties, key_props, i + 1,
                            Put(model_attrs, property_key,
                                [type |-> model_column_class,
                                 primary_key |-> InList(property_key, key_props)]))

RECURSIVE ModelAttrs(_, _, _, _)
ModelAttrs(properties, key_props, i, model_attrs) ==
    IF i > Len(properties) THEN [attrs |-> model_attrs]
    ELSE LET property_key == properties[i].key
             model_column_class == jsonschema_to_cassandra(properties[i].def)
         IN IF model_column_class \in Exceptions
            THEN [err |-> model_column_class]
            ELSE IF model_column_class = "None"
            THEN ModelAttrs(properties, key_props, i + 1, model_attrs)
            ELSE ModelAttrs(properties, key_props, i + 1,
                            Put(model_attrs, property_key,
                                [type |-> model_column_class,
                                 primary_key |-> InList(property_key, key_props)]))

\* type("%sModel" % table_name, (Model,), model_attrs): cqlengine's model
\* metaclass refuses a concrete model none of whose columns is a primary key.
ModelClass(table_name, model_attrs) ==
    IF \A c \in DOMAIN model_attrs : ~model_attrs[c].primary_key
    THEN [err |-> "ModelDefinitionException"]
    ELSE [name |-> table_name \o "Model", columns |-> model_attrs]

process_schema(table_name, schema, key_props) ==
    IF "properties" \notin DOMAIN schema THEN [err |-> "KeyError"]
    ELSE LET r == ModelAttrs(schema.properties, key_props, 1, <<>>)
         IN IF "err" \in DOMAIN r THEN r
            ELSE ModelClass(table_name, r.attrs)

IsError(r) == "err" \in DOMAIN r


\* ------------------------------------------------------------ JSON values
\* A JSON value is a one-field record named by its JSON type; json.loads turns
\* JSON null into Python's None.
None == [null |-> "None"]

JsonType(v) == CHOOSE t \in DOMAIN v : TRUE

\* dateutil.parser.parse(v): a datetime for a timestamp string (two spellings
\* of one instant give equal datetimes), ValueError for any other string,
\* TypeError for a value that is no string.
dateutil_parse(v) ==
    IF JsonType(v) # "string" THEN [err |-> "TypeError"]
    ELSE IF v.string \in {"2024-01-01T00:00:00Z", "2024-01-01 00:00:00+00:00"}
    THEN [datetime |-> "2024-01-01 00:00:00 UTC"]
    ELSE [err |-> "ValueError"]

\* mutant: every column class has the identity typecaster
JSONVALUE_TO_CASSANDRA_identity(column_class, v) == v

\* JSONVALUE_TO_CASSANDRA[column class](v): identity unless the column is a
\* DateTime
JSONVALUE_TO_CASSANDRA(column_class, v) ==
    IF column_class = "DateTime"
    THEN IF v = None THEN None ELSE dateutil_parse(v)
    ELSE v

\* ------------------------------------------------- Draft4Validator (library)
\* Draft 4 "type": an integer is also a number; format is not checked (no
\* format checker is passed).
IsType(v, t) == JsonType(v) = t \/ (t = "number" /\ JsonType(v) = "integer")

TypeKeywordOk(type_kw, v) ==
    IF "str" \in DOMAIN type_kw THEN IsType(v, type_kw.str)
    ELSE \E i \in 1..Len(type_kw.list) : IsType(v, type_kw.list[i])

RECURSIVE ValidValue(_, _)
ValidValue(def, v) ==
    /\ "type" \in DOMAIN def => TypeKeywordOk(def.type, v)
    /\ "anyOf" \in DOMAIN def =>
           \E i \in 1..Len(def.anyOf) : ValidValue(def.anyOf[i], v)

Draft4Validator(schema) == [validator_for |-> schema]

\* validator.validate(instance) for an object instance: TRUE when no
\* ValidationError is raised
validate(validator, instance) ==
    LET schema == validator.validator_for
    IN /\ "required" \in DOMAIN schema => schema.required \subseteq DOMAIN instance
       /\ "properties" \in DOMAIN schema =>
              \A i \in 1..Len(schema.properties) :
                  schema.properties[i].key \in DOMAIN instance =>
                      ValidValue(schema.properties[i].def,
                                 instance[schema.properties[i].key])

\* ------------------------------------------------------------- input pool
Streams == {"s1", "s2"}

DInteger == [type |-> [str |-> "integer"]]
DString == [type |-> [str |-> "string"]]
DObject == [type |-> [str |-> "object"]]
DTimestamp == [type |-> [list |-> <<"string", "null">>], format |-> "date-time"]
DAmbiguous == [type |-> [list |-> <<"string", "integer">>]]
DNullOnly == [type |-> [list |-> <<"null">>]]
DShadowed == [anyOf |-> <<DString>>, type |-> [list |-> <<"string", "integer">>]]

Prop(k, d) == [key |-> k, def |-> d]

SchemaEvents ==
    [properties |-> <<Prop("id", DInteger), Prop("ts", DTimestamp)>>,
     required |-> {"id"}]
SchemaUsers ==
    [properties |-> <<Prop("id", DString), Prop("name", DString), Prop("obj", DObject)>>,
     required |-> {"id", "name"}]
SchemaAmbiguous ==
    [properties |-> <<Prop("id", DInteger), Prop("bad", DAmbiguous)>>]
SchemaNullOnly ==
    [properties |-> <<Prop("id", DInteger), Prop("nothing", DNullOnly)>>]
SchemaShadowed ==
    [properties |-> <<Prop("id", DInteger), Prop("either", DShadowed)>>]

SchemaMessages ==
    {[type |-> "SCHEMA", stream |-> s, schema |-> sk[1], key_properties |-> sk[2]] :
        s \in Streams,
        sk \in {<<SchemaEvents, <<"id">> >>,
                <<SchemaUsers, <<"id">> >>,
                <<SchemaUsers, <<"id", "obj">> >>,
                <<SchemaUsers, <<"obj">> >>,
                <<SchemaAmbiguous, <<"id">> >>}}
    \cup {[type |-> "SCHEMA", stream |-> "s1", schema |-> sc, key_properties |-> <<"id">>] :
              sc \in {SchemaNullOnly, SchemaShadowed}}
    \cup {[type |-> "SCHEMA", schema |-> SchemaEvents, key_properties |-> <<"id">>],
          [type |-> "SCHEMA", stream |-> "s1", key_properties |-> <<"id">>],
          [type |-> "SCHEMA", stream |-> "s1", schema |-> SchemaEvents]}

Records ==
    {[id |-> [integer |-> 1], ts |-> [string |-> "2024-01-01T00:00:00Z"]],
     [id |-> [integer |-> 1]],
     [id |-> [integer |-> 1], ts |-> None],
     [id |-> [integer |-> 1], ts |-> [string |-> "yesterday"]],
     [ts |-> None],
     [id |-> [string |-> "x"], name |-> [string |-> "n"], ts |-> None,
      obj |-> [object |-> "{}"]]}

RecordMessages ==
    {[type |-> "RECORD", stream |-> s, record |-> r] : s \in Streams, r \in Records}
    \cup {[type |-> "RECORD", record |-> [id |-> [integer |-> 1]]],
          [type |-> "RECORD", stream |-> "s1"]}

StateMessages ==
    {[type |-> "STATE", value |-> v] : v \in {[string |-> "A"], [string |-> "B"], None}}
    \cup {[type |-> "STATE"]}

OtherMessages ==
    {[type |-> "ACTIVATE_VERSION", stream |-> "s1", version |-> [integer |-> 1]],
     [type |-> "FOO"],
     [stream |-> "s1"]}

Messages == SchemaMessages \cup RecordMessages \cup StateMessages \cup OtherMessages

\* a line of stdin: the text of a JSON object, or text that is no JSON
Lines == {[json |-> o] : o \in Messages} \cup {[garbage |-> "{not json"]}


\* ---------------------------------------------------------- persist_lines
\* json.loads(line)
json_loads(line) == IF "json" \in DOMAIN line THEN line.json ELSE [err |-> "JSONDecodeError"]

\* the local variables of persist_lines, as one record
Locals ==
    [state |-> state, schemas |-> schemas, key_properties |-> key_properties,
     validators |-> validators, mapped_models |-> mapped_models,
     defined_column_names |-> defined_column_names, calls |-> calls,
     error |-> "none"]

\* raise e, with the locals as they are at that point
Raise(locals, e) == [locals EXCEPT !.error = e]

\* what the storage backend may answer to a call: acknowledged or failed
StorageAnswers == {"ok", "StorageError"}

\* mutant: a column absent from the record is written as null
ColumnValue_defaultsNull(mapped_model, record, column_name) ==
    IF column_name \notin DOMAIN record THEN None
    ELSE JSONVALUE_TO_CASSANDRA(mapped_model.columns[column_name].type,
                                record[column_name])

\* the typecast value of one column of the record (lines 150-152)
ColumnValue(mapped_model, record, column_name) ==
    IF column_name \notin DOMAIN record THEN [err |-> "KeyError"]
    ELSE JSONVALUE_TO_CASSANDRA(mapped_model.columns[column_name].type,
                                record[column_name])

\* mutant: the row carries every field of the record, not only the columns
PersistOutcomes_wholeRecord(o) ==
    IF o.stream \notin DOMAIN mapped_models
       \/ o.stream \notin DOMAIN defined_column_names
    THEN {Raise(Locals, "KeyError")}
    ELSE LET mapped_model == mapped_models[o.stream]
             cols == defined_column_names[o.stream]
             failing == {c \in cols : IsError(ColumnValue(mapped_model, o.record, c))}
             record == [c \in cols \cup DOMAIN o.record |->
                           IF c \in cols THEN ColumnValue(mapped_model, o.record, c)
                           ELSE o.record[c]]
         IN IF failing # {}
            THEN {Raise(Locals, ColumnValue(mapped_model, o.record, c).err) : c \in failing}
            ELSE {IF answer = "ok"
                  THEN [Locals EXCEPT
                          !.calls = Append(@, [op |-> "save", model |-> mapped_model.name,
                                               row |-> record, answer |-> answer]),
                          !.state = None]
                  ELSE Raise([Locals EXCEPT
                                !.calls = Append(@, [op |-> "save",
                                                     model |-> mapped_model.name,
                                                     row |-> record, answer |-> answer])],
                             answer)
                  : answer \in StorageAnswers}

\* Lines 146-157 for a validated record: the row is built, saved, and the
\* pending state cleared. The loop over the set defined_column_names visits
\* the columns in an arbitrary order, so it raises the error of any one
\* failing column.
PersistOutcomes(o) ==
    IF o.stream \notin DOMAIN mapped_models
       \/ o.stream \notin DOMAIN defined_column_names
    THEN {Raise(Locals, "KeyError")}
    ELSE LET mapped_model == mapped_models[o.stream]
             cols == defined_column_names[o.stream]
             failing == {c \in cols : IsError(ColumnValue(mapped_model, o.record, c))}
             record == [c \in cols |-> ColumnValue(mapped_model, o.record, c)]
         IN IF failing # {}
            THEN {Raise(Locals, ColumnValue(mapped_model, o.record, c).err) : c \in failing}
            ELSE {IF answer = "ok"
                  THEN [Locals EXCEPT
                          !.calls = Append(@, [op |-> "save", model |-> mapped_model.name,
                                               row |-> record, answer |-> answer]),
                          !.state = None]
                  ELSE Raise([Locals EXCEPT
                                !.calls = Append(@, [op |-> "save",
                                                     model |-> mapped_model.name,
                                                     row |-> record, answer |-> answer])],
                             answer)
                  : answer \in StorageAnswers}

\* Lines 136-140: the record is validated with the stream's validator
ValidatedOutcomes(o) ==
    IF o.stream \notin DOMAIN validators \/ "record" \notin DOMAIN o
    THEN {Raise(Locals, "KeyError")}
    ELSE IF ~validate(validators[o.stream], o.record)
    THEN {Raise(Locals, "ValidationError")}
    ELSE PersistOutcomes(o)

\* mutant: a record of an undeclared stream is skipped instead of raising
RecordOutcomes_skipsUndeclared(o) ==
    IF "stream" \notin DOMAIN o THEN {Raise(Locals, "Exception")}
    ELSE IF o.stream \notin DOMAIN schemas THEN {Locals}
    ELSE ValidatedOutcomes(o)

\* The outcomes of the RECORD branch (lines 128-157) for the message o: the
\* set of the locals it can leave.
RecordOutcomes(o) ==
    IF "stream" \notin DOMAIN o THEN {Raise(Locals, "Exception")}
    ELSE IF o.stream \notin DOMAIN schemas THEN {Raise(Locals, "Exception")}
    ELSE ValidatedOutcomes(o)

\* mutant: a STATE message does not replace a pending state
StateOutcomes_keepsFirst(o) ==
    IF "value" \notin DOMAIN o THEN {Raise(Locals, "KeyError")}
    ELSE {[Locals EXCEPT !.state = IF @ = None THEN o.value ELSE @]}

\* The STATE branch (lines 158-160)
StateOutcomes(o) ==
    IF "value" \notin DOMAIN o THEN {Raise(Locals, "KeyError")}
    ELSE {[Locals EXCEPT !.state = o.value]}

\* mutant: the validator of a stream that has one already is kept
StoreValidator_keepsOld(vs, stream, schema) ==
    IF stream \in DOMAIN vs THEN vs ELSE Put(vs, stream, Draft4Validator(schema))

\* mutant: the dict is rebound to one holding the new validator alone
StoreValidator_dropsOthers(vs, stream, schema) ==
    [s \in {stream} |-> [validator_for |-> schema]]

\* validators[stream] = Draft4Validator(o['schema'])  (line 167)
StoreValidator(vs, stream, schema) == Put(vs, stream, Draft4Validator(schema))

\* mutant: the column set of a stream that has one already is kept
StoreColumns_keepsOld(dcn, stream, model) ==
    IF stream \in DOMAIN dcn THEN dcn ELSE Put(dcn, stream, DOMAIN model.columns)

\* defined_column_names[stream] = set(mapped_models[stream]._columns.keys())
\* (lines 177-178)
StoreColumns(dcn, stream, model) == Put(dcn, stream, DOMAIN model.columns)

\* mutant: sync_table is skipped for a stream that has a model already
SchemaOutcomes_syncsOnce(o) ==
    IF "stream" \notin DOMAIN o THEN {Raise(Locals, "Exception")}
    ELSE IF "schema" \notin DOMAIN o THEN {Raise(Locals, "KeyError")}
    ELSE
    LET stream == o.stream
        l1 == [Locals EXCEPT
                 !.schemas = Put(@, stream, o.schema),
                 !.validators = StoreValidator(@, stream, o.schema)]
    IN  IF "key_properties" \notin DOMAIN o THEN {Raise(l1, "Exception")}
        ELSE
        LET l2 == [l1 EXCEPT !.key_properties = Put(@, stream, o.key_properties)]
            model == process_schema(stream, l2.schemas[stream], o.key_properties)
        IN  IF IsError(model) THEN {Raise(l2, model.err)}
            ELSE
            LET l3 == [l2 EXCEPT !.mapped_models = Put(@, stream, model)]
            IN  IF stream \in DOMAIN mapped_models
                THEN {[l3 EXCEPT !.defined_column_names = StoreColumns(@, stream, model)]}
                ELSE
                {IF answer = "ok"
                 THEN [l3 EXCEPT
                         !.calls = Append(@, [op |-> "sync_table", model |-> model.name,
                                              columns |-> model.columns,
                                              answer |-> answer]),
                         !.defined_column_names = StoreColumns(@, stream, model)]
                 ELSE Raise([l3 EXCEPT
                               !.calls = Append(@, [op |-> "sync_table",
                                                    model |-> model.name,
                                                    columns |-> model.columns,
                                                    answer |-> answer])],
                            answer)
                 : answer \in StorageAnswers}

\* The SCHEMA branch (lines 161-178): each assignment made before a raise
\* stays made.
SchemaOutcomes(o) ==
    IF "stream" \notin DOMAIN o THEN {Raise(Locals, "Exception")}
    ELSE IF "schema" \notin DOMAIN o THEN {Raise(Locals, "KeyError")}
    ELSE
    LET stream == o.stream
        l1 == [Locals EXCEPT
                 !.schemas = Put(@, stream, o.schema),
                 !.validators = StoreValidator(@, stream, o.schema)]
    IN  IF "key_properties" \notin DOMAIN o THEN {Raise(l1, "Exception")}
        ELSE
        LET l2 == [l1 EXCEPT !.key_properties = Put(@, stream, o.key_properties)]
            model == process_schema(stream, l2.schemas[stream], o.key_properties)
        IN  IF IsError(model) THEN {Raise(l2, model.err)}
            ELSE
            LET l3 == [l2 EXCEPT !.mapped_models = Put(@, stream, model)]
            IN  {IF answer = "ok"
                 THEN [l3 EXCEPT
                         !.calls = Append(@, [op |-> "sync_table", model |-> model.name,
                                              columns |-> model.columns,
                                              answer |-> answer]),
                         !.defined_column_names = StoreColumns(@, stream, model)]
                 ELSE Raise([l3 EXCEPT
                               !.calls = Append(@, [op |-> "sync_table",
                                                    model |-> model.name,
                                                    columns |-> model.columns,
                                                    answer |-> answer])],
                            answer)
                 : answer \in StorageAnswers}

\* mutant: an error is logged and the loop goes on to the next line
Continue_skipsErrors(line, out) ==
    /\ lines' = Append(lines, line)
    /\ state' = out.state
    /\ schemas' = out.schemas
    /\ key_properties' = out.key_properties
    /\ validators' = out.validators
    /\ mapped_models' = out.mapped_models
    /\ defined_column_names' = out.defined_column_names
    /\ calls' = out.calls
    /\ error' = out.error
    /\ pc' = "running"
    /\ UNCHANGED <<stdout, mapperCall, schemaCall>>

\* One iteration of the loop has read `line` and left the locals `out`: an
\* exception propagates out of persist_lines and main, ending the process.
Continue(line, out) ==
    /\ lines' = Append(lines, line)
    /\ state' = out.state
    /\ schemas' = out.schemas
    /\ key_properties' = out.key_properties
    /\ validators' = out.validators
    /\ mapped_models' = out.mapped_models
    /\ defined_column_names' = out.defined_column_names
    /\ calls' = out.calls
    /\ error' = out.error
    /\ pc' = IF out.error = "none" THEN "running" ELSE "aborted"
    /\ UNCHANGED <<stdout, mapperCall, schemaCall>>

\* `for line in lines` yields another line
CanRead == pc = "running" /\ Len(lines) < MaxLines

TypeOf(line) ==
    LET o == json_loads(line)
    IN IF IsError(o) THEN "<unparseable>"
       ELSE IF "type" \notin DOMAIN o THEN "<no type>" ELSE o.type

\* lines 117-121
Unparseable(line) ==
    /\ CanRead
    /\ IsError(json_loads(line))
    /\ Continue(line, Raise(Locals, json_loads(line).err))

\* lines 123-125
MissingType(line) ==
    /\ CanRead
    /\ TypeOf(line) = "<no type>"
    /\ Continue(line, Raise(Locals, "Exception"))

Record(line) ==
    /\ CanRead
    /\ TypeOf(line) = "RECORD"
    /\ \E out \in RecordOutcomes(json_loads(line)) : Continue(line, out)

State(line) ==
    /\ CanRead
    /\ TypeOf(line) = "STATE"
    /\ \E out \in StateOutcomes(json_loads(line)) : Continue(line, out)

Schema(line) ==
    /\ CanRead
    /\ TypeOf(line) = "SCHEMA"
    /\ \E out \in SchemaOutcomes(json_loads(line)) : Continue(line, out)

\* mutant: ACTIVATE_VERSION resets the pending state
ActivateVersion_clearsState(line) ==
    /\ CanRead
    /\ TypeOf(line) = "ACTIVATE_VERSION"
    /\ Continue(line, [Locals EXCEPT !.state = None])

\* lines 180-181
ActivateVersion(line) ==
    /\ CanRead
    /\ TypeOf(line) = "ACTIVATE_VERSION"
    /\ Continue(line, Locals)

\* mutant: a message of an unknown type is ignored
UnknownType_ignored(line) ==
    /\ CanRead
    /\ TypeOf(line) \notin {"<unparseable>", "<no type>", "RECORD", "STATE", "SCHEMA",
                            "ACTIVATE_VERSION"}
    /\ Continue(line, Locals)

\* lines 182-184
UnknownType(line) ==
    /\ CanRead
    /\ TypeOf(line) \notin {"<unparseable>", "<no type>", "RECORD", "STATE", "SCHEMA",
                            "ACTIVATE_VERSION"}
    /\ Continue(line, Raise(Locals, "Exception"))

\* stdin is exhausted: persist_lines returns state (line 186)
Return ==
    /\ pc = "running"
    /\ pc' = "returned"
    /\ UNCHANGED <<lines, state, schemas, key_properties, validators, mapped_models,
                   defined_column_names, calls, stdout, error, mapperCall, schemaCall>>

\* json.dumps of a JSON value: its text
json_dumps(v) ==
    IF JsonType(v) = "string" THEN "\"" \o v.string \o "\"" ELSE "null"

\* mutant: the state is written also when it is None
emit_state_writesNone ==
    /\ pc = "returned"
    /\ stdout' = Append(stdout, json_dumps(state) \o "\n")
    /\ pc' = "exited"
    /\ UNCHANGED <<lines, state, schemas, key_properties, validators, mapped_models,
                   defined_column_names, calls, error, mapperCall, schemaCall>>

\* emit_state(state), then main returns (lines 85-90, 207-208)
emit_state ==
    /\ pc = "returned"
    /\ stdout' = IF state # None THEN Append(stdout, json_dumps(state) \o "\n") ELSE stdout
    /\ pc' = "exited"
    /\ UNCHANGED <<lines, state, schemas, key_properties, validators, mapped_models,
                   defined_column_names, calls, error, mapperCall, schemaCall>>

Init ==
    /\ pc = "running"
    /\ lines = <<>>
    /\ state = None
    /\ schemas = <<>>
    /\ key_properties = <<>>
    /\ validators = <<>>
    /\ mapped_models = <<>>
    /\ defined_column_names = <<>>
    /\ calls = <<>>
    /\ stdout = <<>>
    /\ error = "none"
    /\ mapperCall = [called |-> FALSE]
    /\ schemaCall = [called |-> FALSE]

Next ==
    \/ \E line \in Lines : Unparseable(line)
    \/ \E line \in Lines : MissingType(line)
    \/ \E line \in Lines : Record(line)
    \/ \E line \in Lines : State(line)
    \/ \E line \in Lines : Schema(line)
    \/ \E line \in Lines : ActivateVersion(line)
    \/ \E line \in Lines : UnknownType(line)
    \/ Return
    \/ emit_state

Spec == Init /\ [][Next]_vars


\* ------------------------------------------- the pure functions, on their own
SeqsUpTo(S, n) == UNION {[1..k -> S] : k \in 0..n}

TypeNames == DOMAIN JSONSCHEMA_TO_CASSANDRA \cup {"uuid"}
ListTypes == {"string", "integer", "null", "object"}

TypeParts ==
    {<<>>} \cup {[type |-> [str |-> t]] : t \in TypeNames}
           \cup {[type |-> [list |-> l]] : l \in SeqsUpTo(ListTypes, MaxTypeList)}
FormatParts == {<<>>, [format |-> "date-time"], [format |-> "email"]}

SimpleDefs == {t @@ f : t \in TypeParts, f \in FormatParts}

Alternatives ==
    {[type |-> [str |-> "string"], format |-> "date-time"], DInteger, DObject,
     [type |-> [list |-> <<"null", "string">>]]}

AnyOfDefs ==
    {[anyOf |-> alts] @@ beside :
        alts \in SeqsUpTo(Alternatives, 2),
        beside \in {<<>>, DInteger, [format |-> "date-time"]}}

PropertyDefinitions == SimpleDefs \cup AnyOfDefs

ColumnDefs ==
    {DInteger, DObject, DTimestamp, [type |-> [list |-> <<"null">>]],
     [anyOf |-> <<DString, DObject>>]}

FnSchemas ==
    {[properties |-> <<Prop("id", d[1]), Prop("ts", d[2]), Prop("obj", d[3])>>] :
        d \in [1..3 -> ColumnDefs]}
    \cup {[properties |-> <<Prop("id", DInteger), Prop("bad", DAmbiguous)>>],
          [properties |-> <<>>],
          [type |-> [str |-> "object"]]}

KeyLists == SeqsUpTo({"id", "ts", "obj", "missing"}, MaxKeys)

\* nothing has been called yet
Idle == pc = "running" /\ lines = <<>> /\ ~mapperCall.called /\ ~schemaCall.called

CallTypeMapper(d) ==
    /\ Idle
    /\ mapperCall' = [called |-> TRUE, arg |-> d, result |-> jsonschema_to_cassandra(d)]
    /\ UNCHANGED <<runVars, schemaCall>>

CallProcessSchema(table_name, schema, keys) ==
    /\ Idle
    /\ schemaCall' = [called |-> TRUE, table_name |-> table_name, schema |-> schema,
                      key_properties |-> keys,
                      result |-> process_schema(table_name, schema, keys)]
    /\ UNCHANGED <<runVars, mapperCall>>

FnNext ==
    \/ \E d \in PropertyDefinitions : CallTypeMapper(d)
    \/ \E schema \in FnSchemas, keys \in KeyLists : CallProcessSchema("s1", schema, keys)

FnSpec == Init /\ [][FnNext]_vars


\* =================================================================== claims
\* the message of a line that parsed, and tests on it
IsMessage(line, t) ==
    /\ "json" \in DOMAIN line
    /\ "type" \in DOMAIN line.json
    /\ line.json.type = t

Last(seq) == seq[Len(seq)]

\* this step read a line of type t
Reads(t) == lines' # lines /\ IsMessage(Last(lines'), t)

\* the indices of the SCHEMA messages for `stream` among the lines ls
SchemaIndices(ls, stream) ==
    {j \in 1..Len(ls) : /\ IsMessage(ls[j], "SCHEMA")
                        /\ "stream" \in DOMAIN ls[j].json
                        /\ ls[j].json.stream = stream}

\* the checkpoint the message sequence ls stands for, when all of it was
\* processed: the value of the last STATE message unless a RECORD follows it
ExpectedCheckpoint(ls) ==
    LET states == {i \in 1..Len(ls) : IsMessage(ls[i], "STATE")}
    IN IF states = {} THEN None
       ELSE LET last == CHOOSE i \in states : \A j \in states : j <= i
            IN IF \E j \in (last + 1)..Len(ls) : IsMessage(ls[j], "RECORD")
               THEN None
               ELSE ls[last].json.value

\* C1: when persist_lines has processed the whole sequence without error, the
\* checkpoint it returns is the value of the last STATE message if no RECORD
\* was persisted after it, and none otherwise.
C1_ReturnedCheckpoint ==
    pc \in {"returned", "exited"} => state = ExpectedCheckpoint(lines)

\* a run that returned a checkpoint after STATE, RECORD, STATE
C1_Witness ==
    /\ pc = "returned"
    /\ state # None
    /\ \E i, j, k \in 1..Len(lines) :
          /\ i < j /\ j < k
          /\ IsMessage(lines[i], "STATE")
          /\ IsMessage(lines[j], "RECORD")
          /\ IsMessage(lines[k], "STATE")
          /\ lines[i].json.value # lines[k].json.value

\* C2: a RECORD message whose stream has had no SCHEMA message before it in
\* the run aborts the run with an error, and no storage call is made for it.
C2_RecordBeforeSchema ==
    [][(/\ Reads("RECORD")
        /\ "stream" \in DOMAIN Last(lines').json
        /\ SchemaIndices(lines, Last(lines').json.stream) = {})
       => (pc' = "aborted" /\ error' # "none" /\ calls' = calls)]_vars

\* a record of an undeclared stream aborted a run that had persisted a record
\* of a declared one
C2_Witness ==
    /\ pc = "aborted"
    /\ Len(lines) >= 2
    /\ IsMessage(Last(lines), "RECORD")
    /\ "stream" \in DOMAIN Last(lines).json
    /\ SchemaIndices(lines, Last(lines).json.stream) = {}
    /\ \E i \in 1..Len(calls) : calls[i].op = "save" /\ calls[i].answer = "ok"


\* the RECORD message o, read in a state where its stream has a table
\* definition, lacks a column of that definition
LacksColumn(o) ==
    /\ "stream" \in DOMAIN o
    /\ "record" \in DOMAIN o
    /\ o.stream \in DOMAIN mapped_models
    /\ \E c \in DOMAIN mapped_models[o.stream].columns : c \notin DOMAIN o.record

\* C3 as stated: a RECORD whose record lacks a column of the stream's table
\* definition raises the missing-field error (KeyError), inserts no row and
\* leaves the pending checkpoint as it is.
C3_Original ==
    [][(Reads("RECORD") /\ LacksColumn(Last(lines').json))
       => (/\ pc' = "aborted"
           /\ error' = "KeyError"
           /\ calls' = calls
           /\ state' = state)]_vars

\* C3 amended: a RECORD whose record lacks a column of the stream's table
\* definition aborts the run before any write (no row inserted, nothing
\* defaulted to null, pending checkpoint kept); the error is the validation
\* error exactly when the record fails validation, which runs first, and else
\* the missing-field error unless the coercion of another column fails.
C3_MissingColumnAborts ==
    [][(Reads("RECORD") /\ LacksColumn(Last(lines').json))
       => LET o == Last(lines').json
              model == mapped_models[o.stream]
              valid == validate(Draft4Validator(schemas[o.stream]), o.record)
              coercible ==
                  \A c \in DOMAIN model.columns \cap DOMAIN o.record :
                      ~IsError(JSONVALUE_TO_CASSANDRA(model.columns[c].type, o.record[c]))
          IN /\ pc' = "aborted"
             /\ calls' = calls
             /\ state' = state
             /\ error' \in {"ValidationError", "KeyError", "ValueError", "TypeError"}
             /\ (error' = "ValidationError") <=> ~valid
             /\ (valid /\ coercible) => error' = "KeyError"]_vars

\* a valid record that lacks a column raised KeyError while a checkpoint was
\* pending, and the checkpoint is still there
C3_Witness ==
    /\ pc = "aborted"
    /\ error = "KeyError"
    /\ state # None
    /\ IsMessage(Last(lines), "RECORD")
    /\ LacksColumn(Last(lines).json)
    /\ validate(validators[Last(lines).json.stream], Last(lines).json.record)


\* the most recent SCHEMA message for `stream` among the lines ls
LatestSchemaMessage(ls, stream) ==
    LET idx == SchemaIndices(ls, stream)
    IN ls[CHOOSE i \in idx : \A j \in idx : j <= i].json

\* the RECORD message o validates against the schema of the most recent SCHEMA
\* message for its stream among the lines ls
ValidAgainstCurrent(ls, o) ==
    /\ "stream" \in DOMAIN o
    /\ "record" \in DOMAIN o
    /\ SchemaIndices(ls, o.stream) # {}
    /\ validate(Draft4Validator(LatestSchemaMessage(ls, o.stream).schema), o.record)

\* this step made a save call
Saves == Len(calls') = Len(calls) + 1 /\ Last(calls').op = "save"

\* C4: every save is made for a RECORD that validates against the schema of
\* the most recent SCHEMA message for its stream, and a RECORD that fails that
\* validation aborts the run without a storage call.
C4_InsertedRowsValidated ==
    [][/\ Saves => (Reads("RECORD") /\ ValidAgainstCurrent(lines, Last(lines').json))
       /\ (/\ Reads("RECORD")
           /\ "stream" \in DOMAIN Last(lines').json
           /\ "record" \in DOMAIN Last(lines').json
           /\ SchemaIndices(lines, Last(lines').json.stream) # {}
           /\ ~ValidAgainstCurrent(lines, Last(lines').json))
          => (pc' = "aborted" /\ error' = "ValidationError" /\ calls' = calls)]_vars

\* a record was saved for a stream whose schema had been replaced by another
C4_Witness ==
    /\ pc = "running"
    /\ Len(lines) > 0
    /\ IsMessage(Last(lines), "RECORD")
    /\ Len(calls) > 0
    /\ Last(calls).op = "save"
    /\ Last(calls).answer = "ok"
    /\ \E i, j \in SchemaIndices(lines, Last(lines).json.stream) :
          i < j /\ lines[i].json.schema # lines[j].json.schema

\* C5: an error aborts the run at once, at most one storage call was attempted
\* by the failing message, and an aborted run reads no further line and makes
\* no further storage call.
C5_FailFast ==
    [][/\ error' # "none" => (pc' = "aborted" /\ Len(calls') <= Len(calls) + 1)
       /\ error # "none" => UNCHANGED runVars
       /\ pc = "aborted" => UNCHANGED runVars]_vars

\* a storage failure aborted a run that could have read more lines
C5_Witness ==
    /\ pc = "aborted"
    /\ error = "StorageError"
    /\ Len(lines) < MaxLines
    /\ Len(calls) >= 2
    /\ Last(calls).answer = "StorageError"

\* C6: at most one line is written to standard output, only at the end of the
\* run: it is the JSON text of the returned checkpoint, written exactly when
\* the input was exhausted without error and that checkpoint is not None.
C6_OneCheckpointLine ==
    /\ Len(stdout) <= 1
    /\ pc # "exited" => stdout = <<>>
    /\ pc = "exited" =>
          /\ error = "none"
          /\ (Len(stdout) = 1) <=> (state # None)
          /\ state # None => stdout[1] = json_dumps(state) \o "\n"

\* a run that ended with a checkpoint and wrote it
C6_Witness ==
    /\ pc = "exited"
    /\ stdout = <<"\"B\"\n">>
    /\ \E i \in 1..Len(calls) : calls[i].op = "save"

\* C7: a successful SCHEMA message for a stream that is already declared
\* replaces the stream's schema, validator, key properties, table definition
\* and column set by those of the new message and runs sync_table again; a
\* later RECORD is validated against, and its row built from, the most recent
\* SCHEMA message.
C7_SchemaReplaces ==
    [][/\ (/\ Reads("SCHEMA")
           /\ pc' = "running"
           /\ Last(lines').json.stream \in DOMAIN schemas)
          => LET o == Last(lines').json
                 model == process_schema(o.stream, o.schema, o.key_properties)
             IN /\ schemas'[o.stream] = o.schema
                /\ validators'[o.stream] = Draft4Validator(o.schema)
                /\ key_properties'[o.stream] = o.key_properties
                /\ ~IsError(model)
                /\ mapped_models'[o.stream] = model
                /\ defined_column_names'[o.stream] = DOMAIN model.columns
                /\ calls' = Append(calls, [op |-> "sync_table", model |-> model.name,
                                           columns |-> model.columns, answer |-> "ok"])
       /\ (Reads("RECORD") /\ Saves)
          => LET o == Last(lines').json
                 m == LatestSchemaMessage(lines, o.stream)
                 model == process_schema(m.stream, m.schema, m.key_properties)
             IN /\ validate(Draft4Validator(m.schema), o.record)
                /\ Last(calls').model = model.name
                /\ DOMAIN Last(calls').row = DOMAIN model.columns]_vars

\* a stream was declared, declared again with other columns, and a record was
\* then saved with the new columns
C7_Witness ==
    /\ pc = "running"
    /\ Len(calls) = 3
    /\ calls[1].op = "sync_table" /\ calls[2].op = "sync_table"
    /\ calls[1].model = calls[2].model
    /\ DOMAIN calls[1].columns # DOMAIN calls[2].columns
    /\ calls[3].op = "save" /\ calls[3].answer = "ok"
    /\ calls[3].model = calls[2].model
    /\ DOMAIN calls[3].row = DOMAIN calls[2].columns


\* C8: after a SCHEMA message is processed successfully, every entry of the
\* stream's key_properties is a primary-key column of the stream's table
\* definition (a key property of an unsupported type makes the message fail).
C8_KeyPropertiesAreKeyColumns ==
    [][(Reads("SCHEMA") /\ pc' = "running")
       => LET stream == Last(lines').json.stream
              keys == Last(lines').json.key_properties
              columns == mapped_models'[stream].columns
          IN \A i \in 1..Len(keys) :
                 keys[i] \in DOMAIN columns /\ columns[keys[i]].primary_key]_vars

\* the properties of a schema that the Type Mapper gives a column class
Supported(schema) ==
    {i \in 1..Len(schema.properties) :
        jsonschema_to_cassandra(schema.properties[i].def) \notin Exceptions \cup {"None"}}

\* C9: in the table definition process_schema returns, the column of every
\* schema property with a supported mapped type has primary_key set if and
\* only if the property name is in key_properties.
C9_PrimaryKeyFlag ==
    (schemaCall.called /\ ~IsError(schemaCall.result)) =>
        \A i \in Supported(schemaCall.schema) :
            LET property_key == schemaCall.schema.properties[i].key
            IN /\ property_key \in DOMAIN schemaCall.result.columns
               /\ schemaCall.result.columns[property_key].primary_key
                  <=> (\E k \in 1..Len(schemaCall.key_properties) :
                          schemaCall.key_properties[k] = property_key)

\* a table definition with a key column named second in key_properties, and a
\* column that is no key
C9_Witness ==
    /\ schemaCall.called
    /\ ~IsError(schemaCall.result)
    /\ Len(schemaCall.key_properties) = 2
    /\ schemaCall.key_properties[1] # schemaCall.key_properties[2]
    /\ schemaCall.key_properties[2] \in DOMAIN schemaCall.result.columns
    /\ schemaCall.result.columns[schemaCall.key_properties[2]].primary_key
    /\ \E c \in DOMAIN schemaCall.result.columns : ~schemaCall.result.columns[c].primary_key

\* the definition has a list type with exactly one entry that is not "null"
OneNonNull(def) ==
    /\ "type" \in DOMAIN def
    /\ "list" \in DOMAIN def.type
    /\ Cardinality({i \in 1..Len(def.type.list) : def.type.list[i] # "null"}) = 1

\* the definition with its list type replaced by the one non-null entry
WithSingleType(def) ==
    LET i == CHOOSE j \in 1..Len(def.type.list) : def.type.list[j] # "null"
    IN [k \in DOMAIN def |-> IF k = "type" THEN [str |-> def.type.list[i]] ELSE def[k]]

\* C10: for a definition whose type is a list with exactly one non-null entry
\* T, jsonschema_to_cassandra returns what it returns for the definition with
\* type T and the same other keys.
C10_NullableUnion ==
    (mapperCall.called /\ OneNonNull(mapperCall.arg)) =>
        mapperCall.result = jsonschema_to_cassandra(WithSingleType(mapperCall.arg))

\* ["null", "string", "null"] with format date-time was mapped to DateTime
C10_Witness ==
    /\ mapperCall.called
    /\ mapperCall.arg = [type |-> [list |-> <<"null", "string", "null">>],
                         format |-> "date-time"]
    /\ mapperCall.result = "DateTime"


\* C11: for a definition that contains anyOf, jsonschema_to_cassandra returns
\* the mapped type of the first alternative, whatever the other alternatives
\* and whatever type or format key stands beside anyOf.
C11_AnyOfFirstAlternative ==
    (/\ mapperCall.called
     /\ "anyOf" \in DOMAIN mapperCall.arg
     /\ Len(mapperCall.arg.anyOf) >= 1)
    => mapperCall.result = jsonschema_to_cassandra(mapperCall.arg.anyOf[1])

\* anyOf [string/date-time, integer] beside type integer was mapped to DateTime
C11_Witness ==
    /\ mapperCall.called
    /\ mapperCall.arg =
          [anyOf |-> <<[type |-> [str |-> "string"], format |-> "date-time"], DInteger>>,
           type |-> [str |-> "integer"]]
    /\ mapperCall.result = "DateTime"


\* the type of the definition is a list that, without its "null" entries, has
\* no entry or more than one
NotOneType(def) ==
    /\ "type" \in DOMAIN def
    /\ "list" \in DOMAIN def.type
    /\ Cardinality({i \in 1..Len(def.type.list) : def.type.list[i] # "null"}) # 1

\* the definitions of the properties of the SCHEMA message o
PropertyDefsOf(o) ==
    IF "schema" \in DOMAIN o /\ "properties" \in DOMAIN o.schema
    THEN {o.schema.properties[i].def : i \in 1..Len(o.schema.properties)}
    ELSE {}

\* C12 as stated: a property whose type list leaves zero or several types
\* once "null" is removed makes the Type Mapper fail, and the SCHEMA message
\* that carries it aborts the run before any table is materialized.
C12_Original ==
    [][Reads("SCHEMA") =>
          \A def \in PropertyDefsOf(Last(lines').json) :
              NotOneType(def) =>
                  /\ jsonschema_to_cassandra(def) = "AssertionError"
                  /\ pc' = "aborted"
                  /\ calls' = calls]_vars

\* C12 amended: the same, for a definition that has no anyOf key (anyOf is
\* looked at first and the type list beside it is never read).
C12_AmbiguousTypeListFails ==
    [][Reads("SCHEMA") =>
          \A def \in PropertyDefsOf(Last(lines').json) :
              (NotOneType(def) /\ "anyOf" \notin DOMAIN def) =>
                  /\ jsonschema_to_cassandra(def) = "AssertionError"
                  /\ pc' = "aborted"
                  /\ error' # "none"
                  /\ calls' = calls
                  /\ mapped_models' = mapped_models]_vars

\* after a table was materialized for one stream, a SCHEMA message with a
\* null-only type list aborted the run
C12_Witness ==
    /\ pc = "aborted"
    /\ error = "AssertionError"
    /\ Len(calls) = 1
    /\ calls[1].op = "sync_table"
    /\ IsMessage(Last(lines), "SCHEMA")
    /\ DNullOnly \in PropertyDefsOf(Last(lines).json)


\* C13: the keys of the row of every save are exactly the column names of the
\* stream's current table definition; a record field that is no column
\* (a property dropped as unsupported, a field the schema does not name) is
\* not in the row.
C13_RowKeysAreColumns ==
    [][(Reads("RECORD") /\ Saves) =>
          LET o == Last(lines').json
              m == LatestSchemaMessage(lines, o.stream)
              table == process_schema(m.stream, m.schema, m.key_properties)
              row == Last(calls').row
          IN /\ mapped_models[o.stream] = table
             /\ DOMAIN row = DOMAIN table.columns
             /\ \A k \in DOMAIN o.record \ DOMAIN table.columns : k \notin DOMAIN row]_vars

\* a record with a dropped property and a field outside the schema was saved
\* with the two columns of its table only
C13_Witness ==
    /\ pc = "running"
    /\ Len(lines) > 0
    /\ IsMessage(Last(lines), "RECORD")
    /\ Len(calls) > 0
    /\ Last(calls).op = "save" /\ Last(calls).answer = "ok"
    /\ DOMAIN Last(calls).row = {"id", "name"}
    /\ {"obj", "ts"} \subseteq DOMAIN Last(lines).json.record

\* C14: the pending checkpoint changes only when a STATE message sets it to
\* its value or a RECORD is saved (cleared to None); a SCHEMA message leaves
\* it as it is, and ACTIVATE_VERSION changes neither it nor any per-stream
\* entry and makes no storage call.
C14_CheckpointFrame ==
    [][/\ state' # state =>
             \/ Reads("STATE") /\ state' = Last(lines').json.value
             \/ /\ Reads("RECORD") /\ Saves
                /\ Last(calls').answer = "ok"
                /\ state' = None
       /\ Reads("SCHEMA") => state' = state
       /\ Reads("ACTIVATE_VERSION") =>
             /\ pc' = "running"
             /\ UNCHANGED <<state, schemas, key_properties, validators, mapped_models,
                            defined_column_names, calls>>]_vars

\* a checkpoint was pending through a declaration, a re-declaration and an
\* ACTIVATE_VERSION
C14_Witness ==
    /\ pc = "running"
    /\ Len(lines) = 4
    /\ IsMessage(lines[1], "STATE")
    /\ IsMessage(lines[2], "SCHEMA")
    /\ IsMessage(lines[3], "SCHEMA")
    /\ lines[2].json.stream = lines[3].json.stream
    /\ lines[2].json.schema # lines[3].json.schema
    /\ IsMessage(lines[4], "ACTIVATE_VERSION")
    /\ state # None
    /\ state = lines[1].json.value


\* C15: a SCHEMA message that lacks stream, schema or key_properties aborts
\* the run with an error, no sync_table call is made, and the stored schemas,
\* validators and table definitions are what they were before the message.
C15_IncompleteSchemaStoresNothing ==
    [][(/\ Reads("SCHEMA")
        /\ {"stream", "schema", "key_properties"} \ DOMAIN Last(lines').json # {})
       => (/\ pc' = "aborted"
           /\ error' # "none"
           /\ calls' = calls
           /\ schemas' = schemas
           /\ validators' = validators
           /\ mapped_models' = mapped_models)]_vars

\* this step read a line that parsed to a message with no type, or with a type
\* that is none of the four message types
ReadsUnknown ==
    /\ lines' # lines
    /\ "json" \in DOMAIN Last(lines')
    /\ \/ "type" \notin DOMAIN Last(lines').json
       \/ Last(lines').json.type \notin {"SCHEMA", "RECORD", "STATE", "ACTIVATE_VERSION"}

\* C16: a message without a type, or of a type other than SCHEMA, RECORD,
\* STATE and ACTIVATE_VERSION, aborts the run with an error, makes no storage
\* call and changes neither the per-stream entries nor the pending checkpoint.
C16_UnknownTypeAborts ==
    [][ReadsUnknown =>
          /\ pc' = "aborted"
          /\ error' = "Exception"
          /\ UNCHANGED <<state, schemas, key_properties, validators, mapped_models,
                         defined_column_names, calls, stdout>>]_vars

\* a message of type FOO aborted a run that had a stream declared and a
\* checkpoint pending
C16_Witness ==
    /\ pc = "aborted"
    /\ error = "Exception"
    /\ IsMessage(Last(lines), "FOO")
    /\ state # None
    /\ DOMAIN schemas # {}
    /\ Len(calls) = 1


\* C17: the columns of the table definition process_schema returns are
\* exactly the schema properties with a supported mapped type; a property
\* mapped to None is left out, also when it is a key property, and leaving it
\* out raises nothing: process_schema fails only when the Type Mapper raises
\* for a property or when the model is left without any primary-key column.
C17_ColumnsAreSupportedProperties ==
    (schemaCall.called /\ "properties" \in DOMAIN schemaCall.schema) =>
        LET properties == schemaCall.schema.properties
            supported == {properties[i].key : i \in Supported(schemaCall.schema)}
            rejected == \E i \in 1..Len(properties) :
                            jsonschema_to_cassandra(properties[i].def) \in Exceptions
            keyed == \E k \in 1..Len(schemaCall.key_properties) :
                         schemaCall.key_properties[k] \in supported
        IN /\ ~IsError(schemaCall.result) =>
                  DOMAIN schemaCall.result.columns = supported
           /\ IsError(schemaCall.result) =>
                  \/ rejected /\ schemaCall.result.err \in Exceptions
                  \/ ~keyed /\ schemaCall.result.err = "ModelDefinitionException"

\* a table definition was produced without the key property obj, whose type
\* is unsupported
C17_Witness ==
    /\ schemaCall.called
    /\ ~IsError(schemaCall.result)
    /\ schemaCall.key_properties = <<"id", "obj">>
    /\ schemaCall.schema.properties[3] = Prop("obj", DObject)
    /\ DOMAIN schemaCall.result.columns = {"id", "ts"}


\* C18: in the row of a save, the value of a column that is no DateTime is the
\* record's value unchanged; the value of a DateTime column is None when the
\* record's value is null, and the parsed timestamp otherwise. A null is never
\* handed to the parser: a TypeError comes only from a value that is neither
\* null nor a string.
C18_RowValues ==
    [][/\ (Reads("RECORD") /\ Saves) =>
             LET o == Last(lines').json
                 columns == mapped_models[o.stream].columns
                 row == Last(calls').row
             IN \A c \in DOMAIN row :
                    IF columns[c].type = "DateTime"
                    THEN IF o.record[c] = None
                         THEN row[c] = None
                         ELSE /\ row[c] = dateutil_parse(o.record[c])
                              /\ "datetime" \in DOMAIN row[c]
                    ELSE row[c] = o.record[c]
       /\ (Reads("RECORD") /\ error' = "TypeError") =>
             LET o == Last(lines').json
                 columns == mapped_models[o.stream].columns
             IN \E c \in DOMAIN columns \cap DOMAIN o.record :
                    /\ columns[c].type = "DateTime"
                    /\ JsonType(o.record[c]) \notin {"null", "string"}]_vars

\* {id: 1, ts: "2024-01-01T00:00:00Z"} was saved with id 1 and the parsed
\* timestamp, and {id: 1, ts: null} with a null timestamp
C18_Witness ==
    /\ Len(calls) = 3
    /\ calls[2].op = "save" /\ calls[3].op = "save"
    /\ calls[2].row = [id |-> [integer |-> 1], ts |-> [datetime |-> "2024-01-01 00:00:00 UTC"]]
    /\ calls[3].row = [id |-> [integer |-> 1], ts |-> None]
    /\ lines[2].json.record.ts = [string |-> "2024-01-01T00:00:00Z"]


\* the lines that were processed without error
Processed == IF pc = "aborted" THEN SubSeq(lines, 1, Len(lines) - 1) ELSE lines

\* C19: the storage calls follow the messages, one by one and in order: the
\* acknowledged calls are one sync_table per processed SCHEMA message and one
\* save per processed RECORD message, each made for the stream of its message
\* before the next line is read; a call that failed is the last call of an
\* aborted run.
C19_CallsFollowMessages ==
    LET messages == SelectSeq(Processed,
                        LAMBDA l : IsMessage(l, "SCHEMA") \/ IsMessage(l, "RECORD"))
        acknowledged == SelectSeq(calls, LAMBDA c : c.answer = "ok")
    IN /\ Len(acknowledged) = Len(messages)
       /\ \A i \in 1..Len(messages) :
             /\ acknowledged[i].op =
                    IF messages[i].json.type = "SCHEMA" THEN "sync_table" ELSE "save"
             /\ acknowledged[i].model = messages[i].json.stream \o "Model"
       /\ \A i \in 1..Len(calls) :
             calls[i].answer # "ok" => (i = Len(calls) /\ pc = "aborted")
       /\ Len(calls) <= Len(lines)

\* two streams were declared and a record of each saved, the calls in the
\* order of the messages
C19_Witness ==
    /\ pc = "running"
    /\ Len(calls) = 4
    /\ calls[1].op = "sync_table" /\ calls[1].model = "s2Model"
    /\ calls[2].op = "sync_table" /\ calls[2].model = "s1Model"
    /\ calls[3].op = "save" /\ calls[3].model = "s2Model"
    /\ calls[4].op = "save" /\ calls[4].model = "s1Model"


\* the five per-stream dicts agree: one key set, and each stream's validator,
\* model and column names are the ones its stored schema and key properties give
Consistent(ss, vs, kp, mm, dcn) ==
    /\ DOMAIN vs = DOMAIN ss
    /\ DOMAIN kp = DOMAIN ss
    /\ DOMAIN mm = DOMAIN ss
    /\ DOMAIN dcn = DOMAIN ss
    /\ \A s \in DOMAIN ss :
          /\ vs[s] = Draft4Validator(ss[s])
          /\ mm[s] = process_schema(s, ss[s], kp[s])
          /\ ~IsError(mm[s])
          /\ dcn[s] = DOMAIN mm[s].columns

\* the entry of stream s in the dict d, when it has one
Entry(d, s) == IF s \in DOMAIN d THEN <<d[s]>> ELSE <<>>

\* C20: after every message that did not abort the run the five per-stream
\* dicts have one key set and hold, for each stream, the validator, the model
\* and the column names derived from the stored schema and key properties; a
\* SCHEMA message changes the entries of no stream but its own, and RECORD and
\* STATE messages change no entry.
C20_PerStreamEntries ==
    [][/\ pc' # "aborted" =>
              Consistent(schemas', validators', key_properties', mapped_models',
                         defined_column_names')
       /\ Reads("SCHEMA") =>
              \A B \in Streams :
                  ("stream" \in DOMAIN Last(lines').json
                      => B # Last(lines').json.stream)
                  => /\ Entry(schemas', B) = Entry(schemas, B)
                     /\ Entry(validators', B) = Entry(validators, B)
                     /\ Entry(key_properties', B) = Entry(key_properties, B)
                     /\ Entry(mapped_models', B) = Entry(mapped_models, B)
                     /\ Entry(defined_column_names', B) = Entry(defined_column_names, B)
       /\ (Reads("RECORD") \/ Reads("STATE")) =>
              UNCHANGED <<schemas, validators, key_properties, mapped_models,
                          defined_column_names>>
      ]_vars

\* both streams are declared, the second after the first, and a record and a
\* checkpoint were read after that
C20_Witness ==
    /\ pc = "running"
    /\ Len(lines) = 4
    /\ IsMessage(lines[1], "SCHEMA") /\ IsMessage(lines[2], "SCHEMA")
    /\ IsMessage(lines[3], "RECORD") /\ IsMessage(lines[4], "STATE")
    /\ DOMAIN schemas = Streams
    /\ DOMAIN defined_column_names = Streams
    /\ schemas["s1"] # schemas["s2"]

====
